---- MODULE Spec2Model ----
(***************************************************************************)
(* ChaosKey capture tool: the device session (ChaosKeyDevice in            *)
(* chaoskey_utils.py) and the capture loop and main program                *)
(* (chaoskey_fulltest.py).                                                 *)
(*                                                                         *)
(* Byte strings are sequences of blobs <<off, len>>: the len bytes of the  *)
(* device's output stream that start at stream offset off.  Appending      *)
(* bytes is appending blobs, so two equal blob sequences are equal byte    *)
(* strings, and the length of a byte string is the sum of its blobs'       *)
(* lengths.  The endpoint number is passed through unchanged by every      *)
(* function and decides nothing; it is not part of the state.  The         *)
(* progress line and the transfer rate are console output only.            *)
(***************************************************************************)
EXTENDS Integers, Sequences, FiniteSets, TLC

\* ---------------------------------------------------------------- bounds
MaxDevices == 2      \* attached ChaosKey devices
MaxBlocks == 3       \* num_loops of a call of capture_data
MaxMainBlocks == 1   \* num_loops of the capture of a run of main
MainBlockChunks == 2 \* chunks in a block of main's capture (1024 in the program)
MaxFullChunks == 1   \* block sizes reach MaxFullChunks full chunks plus one byte
MaxPartial == 1      \* partial (shorter than requested) transfers of the transport
MaxCalls == 3        \* method calls a client makes on one session object

\* ------------------------------------------------------ program constants
BULK_TRANSFER_SIZE == 1024

Sessions == {"s1", "s2"}
MainSession == "s1"

\* Python None for the serial filter and for self._device
NoSerial == "None"
NoDevice == 0

\* what reading a device's serial descriptor gives: a serial string, or an
\* exception (usb.core.USBError, ValueError)
Unreadable == "unreadable"
SerialOutcomes == {"A", "B", Unreadable}
SerialFilters == {NoSerial, "", "A"}

Devs == 1..MaxDevices

USBTimeoutError == "USBTimeoutError"
USBErrors == {"USBError:EACCES", "USBError:EBUSY", "USBError:EIO", USBTimeoutError}

\* the block size main captures with, scaled from 1024 chunks of 1024 bytes
DEFAULT_BLOCK_SIZE == MainBlockChunks * BULK_TRANSFER_SIZE

\* the block sizes of capture_data: nothing, one byte, full chunks, and full
\* chunks plus one byte
BlockSizes ==
  {0, 1} \cup {k * BULK_TRANSFER_SIZE : k \in 1..MaxFullChunks}
         \cup {k * BULK_TRANSFER_SIZE + 1 : k \in 1..MaxFullChunks}

VARIABLES
  devices,            \* attached devices in enumeration order: serial outcome of each
  kernel_active,      \* per device: a kernel driver is bound to interface 0
  owner,              \* per device: who holds the claim on interface 0
  pos,                \* per device: bytes of the stream delivered so far
  npartial,           \* partial transfers the transport has made so far
  _serial,            \* per session: self._serial
  _device,            \* per session: self._device (NoDevice or a device index)
  _kernel_was_active, \* per session: self._kernel_was_active
  pc,                 \* per session: position of the control flow
  exc,                \* per session: the exception in flight, or "none"
  usb_calls,          \* per session: life-cycle calls made to the USB library
  size,               \* per session: read()'s size argument
  buffer,             \* per session: read()'s accumulator
  remaining,          \* per session: read()'s remaining
  xlog,               \* per session: the transfers of the current read() call
  ret,                \* per session: read()'s return value
  num_loops,          \* capture_data's num_loops
  block_size,         \* capture_data's block_size
  i,                  \* capture_data's loop index
  total_bytes,        \* capture_data's total_bytes
  sink,               \* the bytes written to output_file
  rlog,               \* the outcome of each block's read of the capture
  report,             \* what capture_data printed about an early stop
  cap_result,         \* capture_data's return value (-1: none yet)
  main_out,           \* how main ended ("running" before it has)
  ncalls,             \* per session: method calls made by the client
  exit_entry,         \* per session: the state in which its last __exit__ began
  exit_alone          \* per session: no other process has acted since then

envVars == <<devices, kernel_active, owner, pos, npartial>>
sessVars == <<_serial, _device, _kernel_was_active, usb_calls>>
readVars == <<size, buffer, remaining, xlog, ret>>
capVars == <<num_loops, block_size, i, total_bytes, sink, rlog, report, cap_result>>
clientVars == <<ncalls, exit_entry, exit_alone>>
vars == <<envVars, sessVars, readVars, capVars, pc, exc, main_out, clientVars>>

\* ---------------------------------------------------------------- helpers
Min(a, b) == IF a < b THEN a ELSE b

RECURSIVE BytesLen(_)
\* len() of a byte string
BytesLen(b) == IF b = <<>> THEN 0 ELSE b[1][2] + BytesLen(Tail(b))

\* `if self._serial:` -- None and the empty string are both false
Truthy(serial) == serial # NoSerial /\ serial # ""

RECURSIVE ScanSerial_Mut(_, _)
\* a mutation of ScanSerial: the try block is around the whole loop, so a
\* descriptor that cannot be read ends the scan
ScanSerial_Mut(serial, k) ==
  IF k > Len(devices) THEN NoDevice
  ELSE IF devices[k] = Unreadable THEN NoDevice
  ELSE IF devices[k] = serial THEN k
  ELSE ScanSerial_Mut(serial, k + 1)

RECURSIVE ScanSerial(_, _)
\* the for loop of __enter__: the first device from index k on whose serial
\* descriptor reads and equals the filter; a failing read is skipped
ScanSerial(serial, k) ==
  IF k > Len(devices) THEN NoDevice
  ELSE IF devices[k] = Unreadable THEN ScanSerial(serial, k + 1)
  ELSE IF devices[k] = serial THEN k
  ELSE ScanSerial(serial, k + 1)

\* usb.core.find(idVendor, idProduct): the first matching device or None
FindFirst == IF Len(devices) > 0 THEN 1 ELSE NoDevice

\* a mutation of LookupDevice: a scan without a match falls back to the first
\* attached device
LookupDevice_Mut(s) ==
  IF Truthy(_serial[s])
  THEN LET m == ScanSerial(_serial[s], 1)
       IN IF m # NoDevice THEN m ELSE FindFirst
  ELSE FindFirst

\* self._device after the lookup of __enter__: the scan assigns it only on a
\* match, the unfiltered find always assigns it
LookupDevice(s) ==
  IF Truthy(_serial[s])
  THEN LET m == ScanSerial(_serial[s], 1)
       IN IF m # NoDevice THEN m ELSE _device[s]
  ELSE FindFirst

Call(op, d, ok) == <<op, d, ok>>

Log(s, op, d, ok) == [usb_calls EXCEPT ![s] = Append(@, Call(op, d, ok))]

\* ------------------------------------------------ ChaosKeyDevice.__enter__
EnterFind(s) ==
  /\ pc[s] = "enter_find"
  /\ LET d == LookupDevice(s)
     IN /\ _device' = [_device EXCEPT ![s] = d]
        /\ IF d = NoDevice
           THEN /\ exc' = [exc EXCEPT ![s] = "RuntimeError"]
                /\ pc' = [pc EXCEPT ![s] = "enter_raised"]
           ELSE /\ exc' = exc
                /\ pc' = [pc EXCEPT ![s] = "enter_check"]
  /\ UNCHANGED <<envVars, _serial, _kernel_was_active, usb_calls, readVars,
                 capVars, main_out, clientVars>>

\* is_kernel_driver_active: answers, or raises USBError / NotImplementedError
EnterCheckKernel(s) ==
  /\ pc[s] = "enter_check"
  /\ \E raised \in BOOLEAN :
       IF raised
       THEN /\ usb_calls' = Log(s, "is_kernel_driver_active", _device[s], FALSE)
            /\ pc' = [pc EXCEPT ![s] = "enter_claim"]
       ELSE /\ usb_calls' = Log(s, "is_kernel_driver_active", _device[s], TRUE)
            /\ pc' = [pc EXCEPT ![s] =
                        IF kernel_active[_device[s]] THEN "enter_detach"
                                                     ELSE "enter_claim"]
  /\ UNCHANGED <<envVars, _serial, _device, _kernel_was_active, readVars,
                 capVars, exc, main_out, clientVars>>

\* a mutation of EnterDetach: self._kernel_was_active is set before the
\* detach call, so it is set also when the call raises
EnterDetach_Mut(s) ==
  /\ pc[s] = "enter_detach"
  /\ LET d == _device[s]
     IN \E ok \in BOOLEAN :
          /\ ok => kernel_active[d]
          /\ kernel_active' = IF ok THEN [kernel_active EXCEPT ![d] = FALSE]
                                    ELSE kernel_active
          /\ _kernel_was_active' = [_kernel_was_active EXCEPT ![s] = TRUE]
          /\ usb_calls' = Log(s, "detach_kernel_driver", d, ok)
  /\ pc' = [pc EXCEPT ![s] = "enter_claim"]
  /\ UNCHANGED <<devices, owner, pos, npartial, _serial, _device, readVars, capVars,
                 exc, main_out, clientVars>>

\* detach_kernel_driver: detaches a bound driver, or raises USBError (always
\* so when no driver is bound any more), which is swallowed
EnterDetach(s) ==
  /\ pc[s] = "enter_detach"
  /\ LET d == _device[s]
     IN \E ok \in BOOLEAN :
          /\ ok => kernel_active[d]
          /\ IF ok
             THEN /\ kernel_active' = [kernel_active EXCEPT ![d] = FALSE]
                  /\ _kernel_was_active' = [_kernel_was_active EXCEPT ![s] = TRUE]
             ELSE UNCHANGED <<kernel_active, _kernel_was_active>>
          /\ usb_calls' = Log(s, "detach_kernel_driver", d, ok)
  /\ pc' = [pc EXCEPT ![s] = "enter_claim"]
  /\ UNCHANGED <<devices, owner, pos, npartial, _serial, _device, readVars, capVars,
                 exc, main_out, clientVars>>

\* the interface can be claimed when nobody holds it and no kernel driver is
\* bound to it
Claimable(d) == owner[d] = "none" /\ ~kernel_active[d]

\* a mutation of EnterClaim: the claim sits inside the try block of the
\* kernel-driver check, so its USBError is swallowed and __enter__ returns
EnterClaim_Mut(s) ==
  /\ pc[s] = "enter_claim"
  /\ LET d == _device[s]
         ok == Claimable(d) \/ owner[d] = s
     IN /\ owner' = IF ok THEN [owner EXCEPT ![d] = s] ELSE owner
        /\ usb_calls' = Log(s, "claim_interface", d, ok)
        /\ pc' = [pc EXCEPT ![s] = "entered"]
  /\ UNCHANGED <<devices, kernel_active, pos, npartial, _serial, _device,
                 _kernel_was_active, readVars, capVars, exc, main_out, clientVars>>

\* usb.util.claim_interface: its exception leaves __enter__
EnterClaim(s) ==
  /\ pc[s] = "enter_claim"
  /\ LET d == _device[s]
     IN \E e \in {"none", "USBError:EACCES", "USBError:EBUSY"} :
          /\ e = "none" => Claimable(d) \/ owner[d] = s
          /\ e = "USBError:EBUSY" => ~(Claimable(d) \/ owner[d] = s)
          /\ IF e = "none"
             THEN /\ owner' = [owner EXCEPT ![d] = s]
                  /\ usb_calls' = Log(s, "claim_interface", d, TRUE)
                  /\ pc' = [pc EXCEPT ![s] = "entered"]
                  /\ exc' = exc
             ELSE /\ owner' = owner
                  /\ usb_calls' = Log(s, "claim_interface", d, FALSE)
                  /\ pc' = [pc EXCEPT ![s] = "enter_raised"]
                  /\ exc' = [exc EXCEPT ![s] = e]
  /\ UNCHANGED <<devices, kernel_active, pos, npartial, _serial, _device,
                 _kernel_was_active, readVars, capVars, main_out, clientVars>>

\* ------------------------------------------------- ChaosKeyDevice.__exit__
\* usb.util.release_interface succeeds when session s holds the interface
Releasable(own, s, d) == own[d] = s

\* the claims after usb.util.release_interface(device, 0) by session s
ReleaseEffect(own, s, d) == [own EXCEPT ![d] = IF Releasable(own, s, d) THEN "none" ELSE @]

\* a mutation of ExitRelease: one try block is around the three teardown
\* steps, so a release that raises skips the reattach and the disposal
ExitRelease_Mut(s) ==
  /\ pc[s] = "exit_begin"
  /\ IF _device[s] = NoDevice
     THEN /\ pc' = [pc EXCEPT ![s] = "exit_return"]
          /\ UNCHANGED <<owner, usb_calls>>
     ELSE LET d == _device[s]
          IN /\ owner' = ReleaseEffect(owner, s, d)
             /\ usb_calls' = Log(s, "release_interface", d, Releasable(owner, s, d))
             /\ pc' = [pc EXCEPT ![s] = IF Releasable(owner, s, d)
                                         THEN "exit_reattach" ELSE "exit_return"]
  /\ UNCHANGED <<devices, kernel_active, pos, npartial, _serial, _device,
                 _kernel_was_active, readVars, capVars, exc, main_out, clientVars>>

\* usb.util.release_interface: drops this session's claim; raises USBError
\* (swallowed) when this session does not hold the interface
ExitRelease(s) ==
  /\ pc[s] = "exit_begin"
  /\ IF _device[s] = NoDevice
     THEN /\ pc' = [pc EXCEPT ![s] = "exit_return"]
          /\ UNCHANGED <<owner, usb_calls>>
     ELSE LET d == _device[s]
          IN /\ owner' = ReleaseEffect(owner, s, d)
             /\ usb_calls' = Log(s, "release_interface", d, Releasable(owner, s, d))
             /\ pc' = [pc EXCEPT ![s] = "exit_reattach"]
  /\ UNCHANGED <<devices, kernel_active, pos, npartial, _serial, _device,
                 _kernel_was_active, readVars, capVars, exc, main_out, clientVars>>

\* attach_kernel_driver binds the driver again when none is bound and nobody
\* holds the interface
Attachable(ka, own, d) == ~ka[d] /\ own[d] = "none"

\* the kernel driver bindings after attach_kernel_driver(0) on device d
AttachEffect(ka, own, d) == [ka EXCEPT ![d] = @ \/ Attachable(ka, own, d)]

\* a mutation of ExitReattach: the USBError of a failing reattach is not
\* swallowed and leaves __exit__
ExitReattach_Mut(s) ==
  /\ pc[s] = "exit_reattach"
  /\ LET d == _device[s]
     IN IF _kernel_was_active[s]
        THEN /\ kernel_active' = AttachEffect(kernel_active, owner, d)
             /\ usb_calls' = Log(s, "attach_kernel_driver", d,
                                 Attachable(kernel_active, owner, d))
             /\ IF Attachable(kernel_active, owner, d)
                THEN /\ pc' = [pc EXCEPT ![s] = "exit_dispose"]
                     /\ exc' = exc
                ELSE /\ pc' = [pc EXCEPT ![s] = "exit_return"]
                     /\ exc' = [exc EXCEPT ![s] = "USBError:EBUSY"]
        ELSE /\ pc' = [pc EXCEPT ![s] = "exit_dispose"]
             /\ UNCHANGED <<kernel_active, usb_calls, exc>>
  /\ UNCHANGED <<devices, owner, pos, npartial, _serial, _device,
                 _kernel_was_active, readVars, capVars, main_out, clientVars>>

\* attach_kernel_driver, only `if self._kernel_was_active`; USBError swallowed
ExitReattach(s) ==
  /\ pc[s] = "exit_reattach"
  /\ LET d == _device[s]
     IN IF _kernel_was_active[s]
        THEN /\ kernel_active' = AttachEffect(kernel_active, owner, d)
             /\ usb_calls' = Log(s, "attach_kernel_driver", d,
                                 Attachable(kernel_active, owner, d))
        ELSE UNCHANGED <<kernel_active, usb_calls>>
  /\ pc' = [pc EXCEPT ![s] = "exit_dispose"]
  /\ UNCHANGED <<devices, owner, pos, npartial, _serial, _device, _kernel_was_active,
                 readVars, capVars, exc, main_out, clientVars>>

\* what __exit__ works on: the claims, the driver bindings and the session's
\* two fields
DevState(s) == [own |-> owner, ka |-> kernel_active, dev |-> _device[s],
                was |-> _kernel_was_active[s]]

\* __exit__ as a whole, run from state st with nothing else acting in between:
\* release, then reattach if the driver was active; the fields are left alone
CloseEffect(s, st) ==
  IF st.dev = NoDevice THEN st
  ELSE LET released == ReleaseEffect(st.own, s, st.dev)
       IN [st EXCEPT !.own = released,
                     !.ka = IF st.was THEN AttachEffect(st.ka, released, st.dev)
                            ELSE st.ka]

\* usb.util.dispose_resources; USBError swallowed; __exit__ returns False, so
\* an exception in flight stays in flight
ExitDispose(s) ==
  /\ pc[s] = "exit_dispose"
  /\ \E ok \in BOOLEAN :
       usb_calls' = Log(s, "dispose_resources", _device[s], ok)
  /\ pc' = [pc EXCEPT ![s] = "exit_return"]
  /\ UNCHANGED <<envVars, _serial, _device, _kernel_was_active, readVars,
                 capVars, exc, main_out, clientVars>>

\* ---------------------------------------------------- ChaosKeyDevice.read
\* a mutation of ChunkSize: every transfer asks for a whole chunk
ChunkSize_Mut(rem) == BULK_TRANSFER_SIZE

\* chunk_size = min(remaining, BULK_TRANSFER_SIZE)
ChunkSize(rem) == Min(rem, BULK_TRANSFER_SIZE)

\* the transfers of a read() call that delivered some but not all of the
\* bytes they asked for
Partials(log) ==
  {k \in 1..Len(log) : /\ log[k][1] = "data"
                       /\ BytesLen(log[k][3]) > 0
                       /\ BytesLen(log[k][3]) < log[k][2]}

\* the lengths the transport may deliver for a request of chunk bytes: never
\* more than asked for; the whole chunk, or a partial one
XferLens(chunk) ==
  {chunk} \cup (IF npartial < MaxPartial THEN {1} ELSE {})

\* a mutation of Extend: the new data goes in front of the accumulator
Extend_Mut(buf, data) == data \o buf

\* buffer.extend(data)
Extend(buf, data) == buf \o data

\* a mutation of TimeoutReturns: a timeout always ends the call with the buffer
TimeoutReturns_Mut(buf) == TRUE

\* `if buffer:` in the timeout handler -- return what we have
TimeoutReturns(buf) == buf # <<>>

\* the guard of read() and the set-up of its loop
ReadBegin(s) ==
  /\ pc[s] = "read_begin"
  /\ IF _device[s] = NoDevice
     THEN /\ exc' = [exc EXCEPT ![s] = "RuntimeError"]
          /\ pc' = [pc EXCEPT ![s] = "read_raised"]
          /\ UNCHANGED <<buffer, remaining, xlog>>
     ELSE /\ buffer' = [buffer EXCEPT ![s] = <<>>]
          /\ remaining' = [remaining EXCEPT ![s] = size[s]]
          /\ xlog' = [xlog EXCEPT ![s] = <<>>]
          /\ pc' = [pc EXCEPT ![s] = "read_loop"]
          /\ exc' = exc
  /\ UNCHANGED <<envVars, sessVars, size, ret, capVars, main_out, clientVars>>

\* a mutation of ReadData: `remaining -= len(data)` is missing (followed for
\* three transfers)
ReadData_Mut(s) ==
  /\ pc[s] = "read_loop"
  /\ remaining[s] > 0
  /\ Len(xlog[s]) < 3
  /\ LET chunk_size == ChunkSize(remaining[s])
         d == _device[s]
     IN \E n \in XferLens(chunk_size) :
          /\ buffer' = [buffer EXCEPT ![s] = Extend(@, <<<<pos[d], n>>>>)]
          /\ pos' = [pos EXCEPT ![d] = @ + n]
          /\ npartial' = IF n < chunk_size THEN npartial + 1 ELSE npartial
          /\ xlog' = [xlog EXCEPT ![s] = Append(@, <<"data", chunk_size, <<<<pos[d], n>>>>>>)]
  /\ UNCHANGED <<devices, kernel_active, owner, sessVars, size, remaining, ret,
                 capVars, pc, exc, main_out, clientVars>>

\* one iteration of `while remaining > 0` in which the transfer delivers n > 0
\* bytes
ReadData(s) ==
  /\ pc[s] = "read_loop"
  /\ remaining[s] > 0
  /\ LET chunk_size == ChunkSize(remaining[s])
         d == _device[s]
     IN \E n \in XferLens(chunk_size) :
          /\ buffer' = [buffer EXCEPT ![s] = Extend(@, <<<<pos[d], n>>>>)]
          /\ remaining' = [remaining EXCEPT ![s] = @ - n]
          /\ pos' = [pos EXCEPT ![d] = @ + n]
          /\ npartial' = IF n < chunk_size THEN npartial + 1 ELSE npartial
          /\ xlog' = [xlog EXCEPT ![s] = Append(@, <<"data", chunk_size, <<<<pos[d], n>>>>>>)]
  /\ UNCHANGED <<devices, kernel_active, owner, sessVars, size, ret, capVars,
                 pc, exc, main_out, clientVars>>

\* a mutation of ReadZero: an empty transfer is skipped and the loop goes on
ReadZero_Mut(s) ==
  /\ pc[s] = "read_loop"
  /\ remaining[s] > 0
  /\ Len(xlog[s]) < 2
  /\ xlog' = [xlog EXCEPT ![s] = Append(@, <<"data", ChunkSize(remaining[s]), <<>>>>)]
  /\ UNCHANGED <<envVars, sessVars, size, buffer, remaining, ret, capVars, pc,
                 exc, main_out, clientVars>>

\* one iteration in which the transfer delivers no bytes: break, return the
\* buffer
ReadZero(s) ==
  /\ pc[s] = "read_loop"
  /\ remaining[s] > 0
  /\ xlog' = [xlog EXCEPT ![s] = Append(@, <<"data", ChunkSize(remaining[s]), <<>>>>)]
  /\ ret' = [ret EXCEPT ![s] = buffer[s]]
  /\ pc' = [pc EXCEPT ![s] = "read_return"]
  /\ UNCHANGED <<envVars, sessVars, size, buffer, remaining, capVars, exc,
                 main_out, clientVars>>

\* one iteration in which the transfer raises USBTimeoutError: return the
\* buffer if it holds data, raise otherwise
ReadTimeout(s) ==
  /\ pc[s] = "read_loop"
  /\ remaining[s] > 0
  /\ xlog' = [xlog EXCEPT ![s] = Append(@, <<"timeout", ChunkSize(remaining[s]), <<>>>>)]
  /\ IF TimeoutReturns(buffer[s])
     THEN /\ ret' = [ret EXCEPT ![s] = buffer[s]]
          /\ pc' = [pc EXCEPT ![s] = "read_return"]
          /\ exc' = exc
     ELSE /\ exc' = [exc EXCEPT ![s] = USBTimeoutError]
          /\ pc' = [pc EXCEPT ![s] = "read_raised"]
          /\ ret' = ret
  /\ UNCHANGED <<envVars, sessVars, size, buffer, remaining, capVars,
                 main_out, clientVars>>

\* a mutation of ReadError: the handler catches usb.core.USBError, so any
\* transport error after some data ends the call with the buffer
ReadError_Mut(s) ==
  /\ pc[s] = "read_loop"
  /\ remaining[s] > 0
  /\ xlog' = [xlog EXCEPT ![s] = Append(@, <<"error", ChunkSize(remaining[s]), <<>>>>)]
  /\ IF buffer[s] # <<>>
     THEN /\ ret' = [ret EXCEPT ![s] = buffer[s]]
          /\ pc' = [pc EXCEPT ![s] = "read_return"]
          /\ exc' = exc
     ELSE /\ exc' = [exc EXCEPT ![s] = "USBError:EIO"]
          /\ pc' = [pc EXCEPT ![s] = "read_raised"]
          /\ ret' = ret
  /\ UNCHANGED <<envVars, sessVars, size, buffer, remaining, capVars,
                 main_out, clientVars>>

\* one iteration in which the transfer raises another USBError: not caught
ReadError(s) ==
  /\ pc[s] = "read_loop"
  /\ remaining[s] > 0
  /\ xlog' = [xlog EXCEPT ![s] = Append(@, <<"error", ChunkSize(remaining[s]), <<>>>>)]
  /\ exc' = [exc EXCEPT ![s] = "USBError:EIO"]
  /\ pc' = [pc EXCEPT ![s] = "read_raised"]
  /\ UNCHANGED <<envVars, sessVars, size, buffer, remaining, ret, capVars,
                 main_out, clientVars>>

\* the loop condition is false: return bytes(buffer)
ReadReturn(s) ==
  /\ pc[s] = "read_loop"
  /\ ~(remaining[s] > 0)
  /\ ret' = [ret EXCEPT ![s] = buffer[s]]
  /\ pc' = [pc EXCEPT ![s] = "read_return"]
  /\ UNCHANGED <<envVars, sessVars, size, buffer, remaining, xlog, capVars,
                 exc, main_out, clientVars>>

\* ------------------------------------------------------------ capture_data
CaptureBegin ==
  /\ pc[MainSession] = "cap_begin"
  /\ total_bytes' = 0
  /\ i' = 0
  /\ pc' = [pc EXCEPT ![MainSession] = "cap_loop"]
  /\ UNCHANGED <<envVars, sessVars, readVars, num_loops, block_size, sink,
                 rlog, report, cap_result, exc, main_out, clientVars>>

\* `for i in range(num_loops)`: the next block's device.read, or the return
\* after the last block
CaptureLoop ==
  /\ pc[MainSession] = "cap_loop"
  /\ IF i < num_loops
     THEN /\ size' = [size EXCEPT ![MainSession] = block_size]
          /\ pc' = [pc EXCEPT ![MainSession] = "read_begin"]
          /\ cap_result' = cap_result
     ELSE /\ cap_result' = total_bytes
          /\ pc' = [pc EXCEPT ![MainSession] = "cap_return"]
          /\ size' = size
  /\ UNCHANGED <<envVars, sessVars, buffer, remaining, xlog, ret, num_loops,
                 block_size, i, total_bytes, sink, rlog, report, exc,
                 main_out, clientVars>>

\* a mutation of Caught: only the timeout is caught
Caught_Mut(e) == e = USBTimeoutError

\* `except usb.core.USBError` (USBTimeoutError is a USBError)
Caught(e) == e \in USBErrors

\* a mutation of BlockNumber: the 0-based loop index is reported
BlockNumber_Mut(k) == k

\* the block number of the messages: i + 1
BlockNumber(k) == k + 1

\* a mutation of Count: a whole block is counted whatever was read
Count_Mut(total, data) == total + block_size

\* total_bytes += len(data)
Count(total, data) == total + BytesLen(data)

\* `except usb.core.USBError`: report the block, break, return total_bytes;
\* any other exception leaves capture_data
CaptureReadFailed ==
  /\ pc[MainSession] = "read_raised"
  /\ rlog' = Append(rlog, <<"raised", exc[MainSession]>>)
  /\ IF Caught(exc[MainSession])
     THEN /\ report' = <<"Read failed", BlockNumber(i), exc[MainSession]>>
          /\ exc' = [exc EXCEPT ![MainSession] = "none"]
          /\ cap_result' = total_bytes
          /\ pc' = [pc EXCEPT ![MainSession] = "cap_return"]
     ELSE /\ pc' = [pc EXCEPT ![MainSession] = "cap_raised"]
          /\ UNCHANGED <<report, exc, cap_result>>
  /\ UNCHANGED <<envVars, sessVars, readVars, num_loops, block_size, i,
                 total_bytes, sink, main_out, clientVars>>

\* the read returned no bytes: report the block, break, return total_bytes
CaptureNoData ==
  /\ pc[MainSession] = "read_return"
  /\ BytesLen(ret[MainSession]) = 0
  /\ rlog' = Append(rlog, <<"data", ret[MainSession]>>)
  /\ report' = <<"No data received", BlockNumber(i), "none">>
  /\ cap_result' = total_bytes
  /\ pc' = [pc EXCEPT ![MainSession] = "cap_return"]
  /\ UNCHANGED <<envVars, sessVars, readVars, num_loops, block_size, i,
                 total_bytes, sink, exc, main_out, clientVars>>

\* output_file.write(data)
Write(file, data) == file \o data

\* a mutation of CaptureBlock: a block shorter than block_size is counted and
\* written, and then ends the capture
CaptureBlock_Mut ==
  /\ pc[MainSession] = "read_return"
  /\ BytesLen(ret[MainSession]) # 0
  /\ rlog' = Append(rlog, <<"data", ret[MainSession]>>)
  /\ total_bytes' = Count(total_bytes, ret[MainSession])
  /\ sink' = Write(sink, ret[MainSession])
  /\ IF BytesLen(ret[MainSession]) < block_size
     THEN /\ cap_result' = total_bytes'
          /\ pc' = [pc EXCEPT ![MainSession] = "cap_return"]
          /\ i' = i
     ELSE /\ i' = i + 1
          /\ pc' = [pc EXCEPT ![MainSession] = "cap_loop"]
          /\ cap_result' = cap_result
  /\ UNCHANGED <<envVars, sessVars, readVars, num_loops, block_size, report,
                 exc, main_out, clientVars>>

\* the read returned bytes: count them, write them (the write may raise
\* OSError, which leaves capture_data), go to the next block
CaptureBlock ==
  /\ pc[MainSession] = "read_return"
  /\ BytesLen(ret[MainSession]) # 0
  /\ rlog' = Append(rlog, <<"data", ret[MainSession]>>)
  /\ total_bytes' = Count(total_bytes, ret[MainSession])
  /\ \E written \in BOOLEAN :
       IF written
       THEN /\ sink' = Write(sink, ret[MainSession])
            /\ i' = i + 1
            /\ pc' = [pc EXCEPT ![MainSession] = "cap_loop"]
            /\ exc' = exc
       ELSE /\ exc' = [exc EXCEPT ![MainSession] = "OSError"]
            /\ pc' = [pc EXCEPT ![MainSession] = "cap_raised"]
            /\ UNCHANGED <<sink, i>>
  /\ UNCHANGED <<envVars, sessVars, readVars, num_loops, block_size, report,
                 cap_result, main_out, clientVars>>

\* -------------------------------------------------------------------- main
\* the except clauses of main: what it prints before it returns 1
Handler(e) ==
  IF e \in USBErrors
  THEN (IF e = "USBError:EACCES" THEN "permission denied" ELSE "usb error")
  ELSE IF e = "RuntimeError" THEN "error"
  ELSE "file error"

\* the checks before the capture: platform, test binaries, attached devices
MainPreflight ==
  /\ pc[MainSession] = "main_start"
  /\ \E out \in {"not linux", "missing binaries", "no devices", "go"} :
       /\ out = "no devices" => devices = <<>>
       /\ out = "go" => devices # <<>>
       /\ IF out = "go"
          THEN /\ pc' = [pc EXCEPT ![MainSession] = "enter_find"]
               /\ main_out' = main_out
          ELSE /\ pc' = [pc EXCEPT ![MainSession] = "main_done"]
               /\ main_out' = out
  /\ UNCHANGED <<envVars, sessVars, readVars, capVars, exc, clientVars>>

\* __enter__ raised: the with statement does not call __exit__, the
\* exception goes to main's handlers
MainEnterRaised ==
  /\ pc[MainSession] = "enter_raised"
  /\ main_out' = Handler(exc[MainSession])
  /\ exc' = [exc EXCEPT ![MainSession] = "none"]
  /\ pc' = [pc EXCEPT ![MainSession] = "main_done"]
  /\ UNCHANGED <<envVars, sessVars, readVars, capVars, clientVars>>

\* the body of `with ChaosKeyDevice(...)`: open(output_filename, "wb"), whose
\* OSError leaves the body
MainOpenOutput ==
  /\ pc[MainSession] = "entered"
  /\ \E opened \in BOOLEAN :
       IF opened
       THEN /\ sink' = <<>>
            /\ pc' = [pc EXCEPT ![MainSession] = "cap_begin"]
            /\ exc' = exc
       ELSE /\ exc' = [exc EXCEPT ![MainSession] = "OSError"]
            /\ pc' = [pc EXCEPT ![MainSession] = "exit_begin"]
            /\ sink' = sink
  /\ UNCHANGED <<envVars, sessVars, readVars, num_loops, block_size, i,
                 total_bytes, rlog, report, cap_result, main_out, clientVars>>

\* a mutation of AfterBody: an exception out of the body skips __exit__
AfterBody_Mut(p) == IF p = "cap_raised" THEN "exit_return" ELSE "exit_begin"

\* where the with statement goes when its body is left: __exit__, always
AfterBody(p) == "exit_begin"

\* capture_data returned or raised: the file is closed and the with
\* statement calls __exit__
MainLeaveBody ==
  /\ pc[MainSession] \in {"cap_return", "cap_raised"}
  /\ pc' = [pc EXCEPT ![MainSession] = AfterBody(pc[MainSession])]
  /\ UNCHANGED <<envVars, sessVars, readVars, capVars, exc, main_out, clientVars>>

\* after __exit__: an exception in flight goes to the handlers (return 1),
\* otherwise the tests run and main returns 0
MainAfterWith ==
  /\ pc[MainSession] = "exit_return"
  /\ main_out' = IF exc[MainSession] = "none" THEN "ok"
                 ELSE Handler(exc[MainSession])
  /\ exc' = [exc EXCEPT ![MainSession] = "none"]
  /\ pc' = [pc EXCEPT ![MainSession] = "main_done"]
  /\ UNCHANGED <<envVars, sessVars, readVars, capVars, clientVars>>

\* main's exit code
ExitCode == IF main_out = "ok" THEN 0 ELSE 1

\* ------------------------------------------------------------- environment
\* another process claims the interface of the device main has selected, when
\* it is free (the devices main never touches do not matter to it)
OtherClaim(d) ==
  /\ d = _device[MainSession]
  /\ d # NoDevice
  /\ Claimable(d)
  /\ owner' = [owner EXCEPT ![d] = "other"]
  /\ exit_alone' = [s \in Sessions |-> FALSE]
  /\ UNCHANGED <<devices, kernel_active, pos, npartial, sessVars, readVars,
                 capVars, pc, exc, main_out, ncalls, exit_entry>>

\* the other process releases the interface
OtherRelease(d) ==
  /\ owner[d] = "other"
  /\ owner' = [owner EXCEPT ![d] = "none"]
  /\ exit_alone' = [s \in Sessions |-> FALSE]
  /\ UNCHANGED <<devices, kernel_active, pos, npartial, sessVars, readVars,
                 capVars, pc, exc, main_out, ncalls, exit_entry>>

\* ------------------------------------------------------- the main program
DeviceLists == UNION {[1..n -> SerialOutcomes] : n \in 0..MaxDevices}

InitEnv ==
  /\ devices \in DeviceLists
  /\ \E k \in BOOLEAN : kernel_active = [d \in Devs |-> k]
  /\ owner = [d \in Devs |-> "none"]
  /\ pos = [d \in Devs |-> 0]
  /\ npartial = 0

InitSessions ==
  /\ _device = [s \in Sessions |-> NoDevice]
  /\ _kernel_was_active = [s \in Sessions |-> FALSE]
  /\ usb_calls = [s \in Sessions |-> <<>>]
  /\ exc = [s \in Sessions |-> "none"]
  /\ size = [s \in Sessions |-> 0]
  /\ buffer = [s \in Sessions |-> <<>>]
  /\ remaining = [s \in Sessions |-> 0]
  /\ xlog = [s \in Sessions |-> <<>>]
  /\ ret = [s \in Sessions |-> <<>>]
  /\ ncalls = [s \in Sessions |-> 0]
  /\ exit_entry = [s \in Sessions |-> <<>>]
  /\ exit_alone = [s \in Sessions |-> FALSE]

InitCapture ==
  /\ i = 0
  /\ total_bytes = 0
  /\ sink = <<>>
  /\ rlog = <<>>
  /\ report = <<>>
  /\ cap_result = -1
  /\ main_out = "running"

\* main with its arguments parsed: --serial and --size (as num_loops, scaled
\* to one block per unit of size); the capture uses the default block size;
\* at most one device is attached
Init ==
  /\ InitEnv
  /\ Len(devices) <= 1
  /\ InitSessions
  /\ InitCapture
  /\ \E f \in SerialFilters :
       /\ _serial = [s \in Sessions |-> IF s = MainSession THEN f ELSE NoSerial]
       \* without a serial filter no serial descriptor is ever read
       /\ ~Truthy(f) => \A k \in 1..Len(devices) : devices[k] = "A"
  /\ pc = [s \in Sessions |-> IF s = MainSession THEN "main_start" ELSE "idle"]
  /\ num_loops \in 0..MaxMainBlocks
  /\ block_size = DEFAULT_BLOCK_SIZE

Next ==
  \/ MainPreflight
  \/ EnterFind(MainSession)
  \/ EnterCheckKernel(MainSession)
  \/ EnterDetach(MainSession)
  \/ EnterClaim(MainSession)
  \/ MainEnterRaised
  \/ MainOpenOutput
  \/ CaptureBegin
  \/ CaptureLoop
  \/ ReadBegin(MainSession)
  \/ ReadData(MainSession)
  \/ ReadZero(MainSession)
  \/ ReadTimeout(MainSession)
  \/ ReadError(MainSession)
  \/ ReadReturn(MainSession)
  \/ CaptureReadFailed
  \/ CaptureNoData
  \/ CaptureBlock
  \/ MainLeaveBody
  \/ ExitRelease(MainSession)
  \/ ExitReattach(MainSession)
  \/ ExitDispose(MainSession)
  \/ MainAfterWith
  \/ \E d \in Devs : OtherClaim(d)
  \/ \E d \in Devs : OtherRelease(d)

Spec == Init /\ [][Next]_vars

\* --------------------------------------------- capture_data on its own
\* a call capture_data(device, output_file, endpoint, num_loops, block_size)
\* with an open session on the only attached device and an empty open file
InitCaptureCall ==
  /\ devices = <<"A">>
  /\ kernel_active = [d \in Devs |-> FALSE]
  /\ owner = [d \in Devs |-> IF d = 1 THEN MainSession ELSE "none"]
  /\ pos = [d \in Devs |-> 0]
  /\ npartial = 0
  /\ _kernel_was_active = [s \in Sessions |-> FALSE]
  /\ exc = [s \in Sessions |-> "none"]
  /\ size = [s \in Sessions |-> 0]
  /\ buffer = [s \in Sessions |-> <<>>]
  /\ remaining = [s \in Sessions |-> 0]
  /\ xlog = [s \in Sessions |-> <<>>]
  /\ ret = [s \in Sessions |-> <<>>]
  /\ ncalls = [s \in Sessions |-> 0]
  /\ exit_entry = [s \in Sessions |-> <<>>]
  /\ exit_alone = [s \in Sessions |-> FALSE]
  /\ InitCapture
  /\ _serial = [s \in Sessions |-> NoSerial]
  /\ \E opened \in {<<Call("is_kernel_driver_active", 1, TRUE),
                       Call("claim_interface", 1, TRUE)>>} :
       /\ _device = [s \in Sessions |-> IF s = MainSession THEN 1 ELSE NoDevice]
       /\ usb_calls = [s \in Sessions |-> IF s = MainSession THEN opened ELSE <<>>]
  /\ pc = [s \in Sessions |-> IF s = MainSession THEN "cap_begin" ELSE "idle"]
  /\ num_loops \in 0..MaxBlocks
  /\ block_size \in BlockSizes

NextCapture ==
  \/ CaptureBegin
  \/ CaptureLoop
  \/ ReadBegin(MainSession)
  \/ ReadData(MainSession)
  \/ ReadZero(MainSession)
  \/ ReadTimeout(MainSession)
  \/ ReadError(MainSession)
  \/ ReadReturn(MainSession)
  \/ CaptureReadFailed
  \/ CaptureNoData
  \/ CaptureBlock

SpecCapture == InitCaptureCall /\ [][NextCapture]_vars

\* capture_data keeps running: every transfer it waits for completes, with
\* data, with no data, with a timeout or with an error
FairCapture == SpecCapture /\ WF_vars(NextCapture)

\* ------------------------------------------- clients of ChaosKeyDevice
\* a session object between two method calls
Idle(s) == pc[s] \in {"idle", "entered", "enter_raised", "exit_return",
                      "read_return", "read_raised"}

\* a client calls __enter__
ApiEnter(s) ==
  /\ Idle(s)
  /\ ncalls[s] < MaxCalls
  /\ ncalls' = [ncalls EXCEPT ![s] = @ + 1]
  /\ exc' = [exc EXCEPT ![s] = "none"]
  /\ pc' = [pc EXCEPT ![s] = "enter_find"]
  /\ UNCHANGED <<envVars, sessVars, readVars, capVars, main_out, exit_entry,
                 exit_alone>>

\* a client calls __exit__
ApiExit(s) ==
  /\ Idle(s)
  /\ ncalls[s] < MaxCalls
  /\ ncalls' = [ncalls EXCEPT ![s] = @ + 1]
  /\ exc' = [exc EXCEPT ![s] = "none"]
  /\ pc' = [pc EXCEPT ![s] = "exit_begin"]
  /\ exit_entry' = [exit_entry EXCEPT ![s] = DevState(s)]
  /\ exit_alone' = [exit_alone EXCEPT ![s] = TRUE]
  /\ UNCHANGED <<envVars, sessVars, readVars, capVars, main_out>>

\* a client calls read(endpoint, size)
ApiRead(s) ==
  /\ Idle(s)
  /\ ncalls[s] < MaxCalls
  /\ ncalls' = [ncalls EXCEPT ![s] = @ + 1]
  /\ exc' = [exc EXCEPT ![s] = "none"]
  /\ \E n \in {0, 1} : size' = [size EXCEPT ![s] = n]
  /\ pc' = [pc EXCEPT ![s] = "read_begin"]
  /\ UNCHANGED <<envVars, sessVars, buffer, remaining, xlog, ret, capVars,
                 main_out, exit_entry, exit_alone>>

\* a session object constructed with any serial filter, not yet opened
InitAPI ==
  /\ InitEnv
  /\ InitSessions
  /\ InitCapture
  /\ \E f \in SerialFilters :
       /\ _serial = [s \in Sessions |-> IF s = MainSession THEN f ELSE NoSerial]
       /\ ~Truthy(f) => \A k \in 1..Len(devices) : devices[k] = "A"
  /\ pc = [s \in Sessions |-> "idle"]
  /\ num_loops = 0
  /\ block_size = 0

\* one client making calls on its session object while another process may
\* claim and release the device's interface
NextAPI ==
  \/ \E d \in Devs : OtherClaim(d)
  \/ \E d \in Devs : OtherRelease(d)
  \/ \E s \in {MainSession} :
    \/ ApiEnter(s)
    \/ ApiExit(s)
    \/ ApiRead(s)
    \/ EnterFind(s)
    \/ EnterCheckKernel(s)
    \/ EnterDetach(s)
    \/ EnterClaim(s)
    \/ ExitRelease(s)
    \/ ExitReattach(s)
    \/ ExitDispose(s)
    \/ ReadBegin(s)
    \/ ReadData(s)
    \/ ReadZero(s)
    \/ ReadTimeout(s)
    \/ ReadError(s)
    \/ ReadReturn(s)

SpecAPI == InitAPI /\ [][NextAPI]_vars

\* ------------------------------------- two sessions on the same device
\* `with ChaosKeyDevice(...) as device:` is reached: __enter__ is called
WithEnter(s) ==
  /\ pc[s] = "idle"
  /\ pc' = [pc EXCEPT ![s] = "enter_find"]
  /\ UNCHANGED <<envVars, sessVars, readVars, capVars, exc, main_out, clientVars>>

\* the body of the with statement is left: __exit__ is called
WithLeave(s) ==
  /\ pc[s] = "entered"
  /\ pc' = [pc EXCEPT ![s] = "exit_begin"]
  /\ exit_entry' = [exit_entry EXCEPT ![s] = DevState(s)]
  /\ exit_alone' = [exit_alone EXCEPT ![s] = TRUE]
  /\ UNCHANGED <<envVars, sessVars, readVars, capVars, exc, main_out, ncalls>>

\* the with statement is over: __exit__ returned, or __enter__ raised and
\* __exit__ was never called
WithDone(s) ==
  /\ pc[s] \in {"exit_return", "enter_raised"}
  /\ pc' = [pc EXCEPT ![s] = "done"]
  /\ UNCHANGED <<envVars, sessVars, readVars, capVars, exc, main_out, clientVars>>

\* two programs (or two with statements of one program) start with no
\* serial filter and one device attached, its kernel driver bound or not
InitRace ==
  /\ devices = <<"A">>
  /\ \E k \in BOOLEAN : kernel_active = [d \in Devs |-> k]
  /\ owner = [d \in Devs |-> "none"]
  /\ pos = [d \in Devs |-> 0]
  /\ npartial = 0
  /\ InitSessions
  /\ InitCapture
  /\ _serial = [s \in Sessions |-> NoSerial]
  /\ pc = [s \in Sessions |-> "idle"]
  /\ num_loops = 0
  /\ block_size = 0

NextRace ==
  \E s \in Sessions :
    \/ WithEnter(s)
    \/ EnterFind(s)
    \/ EnterCheckKernel(s)
    \/ EnterDetach(s)
    \/ EnterClaim(s)
    \/ WithLeave(s)
    \/ ExitRelease(s)
    \/ ExitReattach(s)
    \/ ExitDispose(s)
    \/ WithDone(s)

SpecRace == InitRace /\ [][NextRace]_vars

\* ================================================================= claims
RECURSIVE Accumulated(_)
\* the data of the transfers of a log, concatenated in order
Accumulated(log) ==
  IF log = <<>> THEN <<>> ELSE log[1][3] \o Accumulated(Tail(log))

\* the library calls of session s named op
CallsOf(s, op) == {k \in 1..Len(usb_calls[s]) : usb_calls[s][k][1] = op}

\* read() of session s has just ended
ReadEnded(s) == pc[s] \in {"read_return", "read_raised"}

\* the open of main failed at the claim after this attempt detached the driver
C1_DetachedThenClaimFailed ==
  /\ pc[MainSession] = "enter_raised"
  /\ _kernel_was_active[MainSession]
  /\ usb_calls[MainSession] # <<>>
  /\ usb_calls[MainSession][Len(usb_calls[MainSession])][1] = "claim_interface"

\* C1: when the open in main detaches the kernel driver and the claim then
\* fails, the open fails with a busy/access error and, by the time the failure
\* is with main's handler, cleanup has reattached the kernel driver: a
\* reattach was made, and the driver is bound again unless somebody else
\* holds the interface.
C1_OpenFailureRevertsDetach ==
  C1_DetachedThenClaimFailed =>
    /\ exc[MainSession] \in {"USBError:EBUSY", "USBError:EACCES"}
    /\ CallsOf(MainSession, "attach_kernel_driver") # {}
    /\ owner[_device[MainSession]] = "none" => kernel_active[_device[MainSession]]

\* C2: a transfer that times out is the last transfer of its read() call; with
\* an empty accumulator the call raises the timeout, with bytes accumulated it
\* returns exactly those bytes.
C2_TimeoutOutcome ==
  \A k \in 1..Len(xlog[MainSession]) :
    xlog[MainSession][k][1] = "timeout" =>
      /\ k = Len(xlog[MainSession])
      /\ pc[MainSession] # "read_loop"
      /\ ReadEnded(MainSession) =>
           IF Accumulated(xlog[MainSession]) = <<>>
           THEN /\ pc[MainSession] = "read_raised"
                /\ exc[MainSession] = USBTimeoutError
           ELSE /\ pc[MainSession] = "read_return"
                /\ exc[MainSession] = "none"
                /\ ret[MainSession] = Accumulated(xlog[MainSession])

\* a read() that timed out after a partial transfer and returned the bytes
C2_Witness ==
  /\ pc[MainSession] = "read_return"
  /\ Len(xlog[MainSession]) >= 2
  /\ xlog[MainSession][Len(xlog[MainSession])][1] = "timeout"
  /\ BytesLen(ret[MainSession]) > 0
  /\ BytesLen(ret[MainSession]) < size[MainSession]

\* C3: while read() runs and when it returns, the accumulator is never longer
\* than the size asked for, and neither is the value returned.
C3_NeverMoreThanSize ==
  /\ pc[MainSession] \in {"read_loop", "read_return"} =>
       BytesLen(buffer[MainSession]) <= size[MainSession]
  /\ pc[MainSession] = "read_return" =>
       BytesLen(ret[MainSession]) <= size[MainSession]

\* a read() of more than a chunk that returned exactly the size asked for
C3_Witness ==
  /\ pc[MainSession] = "read_return"
  /\ size[MainSession] > BULK_TRANSFER_SIZE
  /\ BytesLen(ret[MainSession]) = size[MainSession]
  /\ Len(xlog[MainSession]) >= 2

\* every transfer of the log delivered at least one byte
AllData(log) ==
  \A k \in 1..Len(log) : log[k][1] = "data" /\ BytesLen(log[k][3]) >= 1

\* C4: read() returns fewer bytes than asked for only if its last transfer
\* delivered nothing or timed out; when every transfer delivers at least one
\* byte it returns exactly size bytes, the transfers' data in order.
C4_ShortOnlyWhenExhausted ==
  pc[MainSession] = "read_return" =>
    /\ BytesLen(ret[MainSession]) < size[MainSession] =>
         /\ xlog[MainSession] # <<>>
         /\ xlog[MainSession][Len(xlog[MainSession])][1] \in {"data", "timeout"}
         /\ xlog[MainSession][Len(xlog[MainSession])][3] = <<>>
    /\ AllData(xlog[MainSession]) =>
         /\ BytesLen(ret[MainSession]) = size[MainSession]
         /\ ret[MainSession] = Accumulated(xlog[MainSession])

\* a read() completed by a partial transfer followed by the rest
C4_Witness ==
  /\ pc[MainSession] = "read_return"
  /\ AllData(xlog[MainSession])
  /\ Partials(xlog[MainSession]) # {}
  /\ Len(xlog[MainSession]) >= 2
  /\ BytesLen(ret[MainSession]) = size[MainSession]

\* C5: a transfer that delivers zero bytes is the last transfer of its read()
\* call, and the call returns, without raising, exactly the bytes accumulated
\* before it.
C5_ZeroBytesStops ==
  \A k \in 1..Len(xlog[MainSession]) :
    (xlog[MainSession][k][1] = "data" /\ xlog[MainSession][k][3] = <<>>) =>
      /\ k = Len(xlog[MainSession])
      /\ pc[MainSession] # "read_loop"
      /\ ReadEnded(MainSession) =>
           /\ pc[MainSession] = "read_return"
           /\ exc[MainSession] = "none"
           /\ ret[MainSession] = Accumulated(xlog[MainSession])

\* a read() ended by a zero-byte transfer after it had accumulated bytes
C5_Witness ==
  /\ pc[MainSession] = "read_return"
  /\ Len(xlog[MainSession]) >= 2
  /\ xlog[MainSession][Len(xlog[MainSession])][1] = "data"
  /\ xlog[MainSession][Len(xlog[MainSession])][3] = <<>>
  /\ ret[MainSession] # <<>>

\* __exit__ of session s is past its first step or has returned
InExit(s) == pc[s] \in {"exit_reattach", "exit_dispose", "exit_return"}

Opened(s) ==
  \E k \in CallsOf(s, "claim_interface") : usb_calls[s][k][3]

\* C7 (safety part): a session opened in main is released at most once, and
\* when main has ended it has been released exactly once and no longer holds
\* the interface.
C7_ClosedOnce ==
  Opened(MainSession) =>
    /\ Cardinality(CallsOf(MainSession, "release_interface")) <= 1
    /\ pc[MainSession] = "main_done" =>
         /\ Cardinality(CallsOf(MainSession, "release_interface")) = 1
         /\ owner[_device[MainSession]] # MainSession

\* the steps of main itself, as against those of other processes
MainNext ==
  \/ MainPreflight
  \/ EnterFind(MainSession)
  \/ EnterCheckKernel(MainSession)
  \/ EnterDetach(MainSession)
  \/ EnterClaim(MainSession)
  \/ MainEnterRaised
  \/ MainOpenOutput
  \/ CaptureBegin
  \/ CaptureLoop
  \/ ReadBegin(MainSession)
  \/ ReadData(MainSession)
  \/ ReadZero(MainSession)
  \/ ReadTimeout(MainSession)
  \/ ReadError(MainSession)
  \/ ReadReturn(MainSession)
  \/ CaptureReadFailed
  \/ CaptureNoData
  \/ CaptureBlock
  \/ MainLeaveBody
  \/ ExitRelease(MainSession)
  \/ ExitReattach(MainSession)
  \/ ExitDispose(MainSession)
  \/ MainAfterWith

\* main is a sequential program that keeps running: every call it makes
\* returns or raises
FairSpec == Spec /\ WF_vars(MainNext)

\* C7: once main has opened the session, the session is eventually closed,
\* exactly once, on every way the capture stops, and main never ends with the
\* interface still claimed by the session.
C7_EventuallyClosedOnce ==
  /\ []C7_ClosedOnce
  /\ (Opened(MainSession) ~> pc[MainSession] = "main_done")

\* main has ended after a write to the sink failed in the middle of the
\* capture, the session closed
C7_Witness ==
  /\ pc[MainSession] = "main_done"
  /\ Opened(MainSession)
  /\ main_out = "file error"
  /\ rlog # <<>>
  /\ Cardinality(CallsOf(MainSession, "release_interface")) = 1

RECURSIVE BlocksData(_)
\* the bytes returned by the reads of a capture, concatenated in block order
BlocksData(log) ==
  IF log = <<>> THEN <<>>
  ELSE (IF log[1][1] = "data" THEN log[1][2] ELSE <<>>) \o BlocksData(Tail(log))

\* the reads before block k
Earlier(k) == SubSeq(rlog, 1, k - 1)

\* C8: the first block whose read returns no bytes is the last block read;
\* capture_data reports its 1-based number, writes nothing for it, has the
\* earlier blocks' bytes in the sink in order and returns their total length.
C8_ZeroBlockStops ==
  \A k \in 1..Len(rlog) :
    rlog[k] = <<"data", <<>>>> =>
      /\ k = Len(rlog)
      /\ pc[MainSession] = "cap_return"
      /\ exc[MainSession] = "none"
      /\ report = <<"No data received", k, "none">>
      /\ sink = BlocksData(Earlier(k))
      /\ cap_result = BytesLen(BlocksData(Earlier(k)))

\* two full blocks of one chunk, then an empty third of three: two blocks
\* returned as the total, block 3 reported
C8_Witness ==
  /\ num_loops = 3
  /\ block_size = BULK_TRANSFER_SIZE
  /\ Len(rlog) = 3
  /\ BytesLen(rlog[1][2]) = block_size
  /\ BytesLen(rlog[2][2]) = block_size
  /\ rlog[3] = <<"data", <<>>>>
  /\ report = <<"No data received", 3, "none">>
  /\ cap_result = 2 * BULK_TRANSFER_SIZE

\* C9: a block whose read raises a USB error is the last block read;
\* capture_data reports its number and the error, does not raise, has the
\* earlier blocks' bytes in the sink in order and returns their total length.
C9_ReadFailureStops ==
  \A k \in 1..Len(rlog) :
    (rlog[k][1] = "raised" /\ rlog[k][2] \in USBErrors) =>
      /\ k = Len(rlog)
      /\ pc[MainSession] = "cap_return"
      /\ exc[MainSession] = "none"
      /\ report = <<"Read failed", k, rlog[k][2]>>
      /\ sink = BlocksData(Earlier(k))
      /\ cap_result = BytesLen(BlocksData(Earlier(k)))

\* the read of a later block failed with a transport error other than a
\* timeout, after earlier blocks had been written
C9_Witness ==
  /\ pc[MainSession] = "cap_return"
  /\ Len(rlog) >= 2
  /\ rlog[Len(rlog)] = <<"raised", "USBError:EIO">>
  /\ cap_result > 0
  /\ BytesLen(sink) = cap_result

\* no read of the capture failed and none returned zero bytes
NoEarlyStop ==
  \A k \in 1..Len(rlog) : rlog[k][1] = "data" /\ rlog[k][2] # <<>>

\* every read of the capture returned a whole block
AllFull ==
  \A k \in 1..Len(rlog) : rlog[k][1] = "data" /\ BytesLen(rlog[k][2]) = block_size

\* C10: at every block boundary the running total is the number of bytes in
\* the sink, which holds the blocks read so far; a capture that returns
\* without a failed or empty read has issued num_loops reads, written every
\* block, and returns the sum of the lengths read, num_loops * block_size
\* when every read was full.
C10_FullCapture ==
  /\ pc[MainSession] = "cap_loop" =>
       /\ i = Len(rlog)
       /\ sink = BlocksData(rlog)
       /\ total_bytes = BytesLen(sink)
  /\ (pc[MainSession] = "cap_return" /\ NoEarlyStop) =>
       /\ Len(rlog) = num_loops
       /\ sink = BlocksData(rlog)
       /\ cap_result = BytesLen(BlocksData(rlog))
       /\ AllFull => cap_result = num_loops * block_size

\* a capture of three blocks, one of them short, has returned
C10_Witness ==
  /\ pc[MainSession] = "cap_return"
  /\ num_loops = 3
  /\ Len(rlog) = 3
  /\ NoEarlyStop
  /\ ~AllFull
  /\ BytesLen(rlog[3][2]) = block_size
  /\ cap_result = BytesLen(sink)
  /\ cap_result < 3 * block_size

\* the serial filter of session s matches none of the attached devices
NoMatch(s) == Truthy(_serial[s]) /\ ScanSerial(_serial[s], 1) = NoDevice

\* C11: a session whose serial filter matches no attached device never gets
\* past the lookup of __enter__: every open ends with the not-found
\* RuntimeError, the session selects no device, makes no library call at all
\* (no detach, no claim) and never holds an interface.
C11_NoMatchNotFound ==
  \A s \in Sessions :
    NoMatch(s) =>
      /\ pc[s] \notin {"enter_check", "enter_detach", "enter_claim", "entered"}
      /\ pc[s] = "enter_raised" => exc[s] = "RuntimeError"
      /\ _device[s] = NoDevice
      /\ usb_calls[s] = <<>>
      /\ \A d \in Devs : owner[d] # s

\* an open with filter "A" has failed with two devices attached, one with
\* another serial and one whose serial cannot be read
C11_Witness ==
  /\ _serial[MainSession] = "A"
  /\ devices = <<"B", Unreadable>>
  /\ pc[MainSession] = "enter_raised"
  /\ exc[MainSession] = "RuntimeError"

\* session s is in the Open state: its last successful claim of the interface
\* has not been followed by a close
IsOpen(s) ==
  \E k \in CallsOf(s, "claim_interface") :
    /\ usb_calls[s][k][3]
    /\ \A j \in CallsOf(s, "release_interface") : j < k

\* C12: read() on a session that is not open (never opened, open failed, or
\* already closed) raises RuntimeError("Device not open") and issues no
\* transfer: it never enters its transfer loop and never returns.
C12_ReadOnlyWhenOpen ==
  \A s \in Sessions :
    (pc[s] \in {"read_loop", "read_return", "read_raised"} /\ ~IsOpen(s)) =>
      /\ pc[s] = "read_raised"
      /\ exc[s] = "RuntimeError"

\* capture_data is inside a device.read call or has its outcome in hand
InRead == pc[MainSession] \in {"read_begin", "read_loop", "read_return", "read_raised"}

\* block k of the capture was read short: fewer bytes than block_size
ShortBlock(k) == rlog[k][1] = "data" /\ BytesLen(rlog[k][2]) < block_size

\* C13 as stated: a block read that returns fewer bytes than block_size is
\* the last read capture_data issues.
C13_ShortReadStops ==
  \A k \in 1..Len(rlog) :
    ShortBlock(k) => (k = Len(rlog) /\ ~InRead)

\* C13 as amended: a block read that returns no bytes is the last read
\* capture_data issues; a block read that returns bytes, short or not, does
\* not end the capture: capture_data returns right after such a block only
\* when it was the last of its num_loops blocks.
C13_EmptyReadStops ==
  /\ \A k \in 1..Len(rlog) :
       rlog[k] = <<"data", <<>>>> => (k = Len(rlog) /\ ~InRead)
  /\ (/\ pc[MainSession] = "cap_return"
      /\ rlog # <<>>
      /\ rlog[Len(rlog)][1] = "data"
      /\ rlog[Len(rlog)][2] # <<>>) => Len(rlog) = num_loops

\* the first block was read short but not empty, and later blocks were read
\* until the capture returned
C13_Witness ==
  /\ pc[MainSession] = "cap_return"
  /\ Len(rlog) >= 2
  /\ ShortBlock(1)
  /\ rlog[1][2] # <<>>
  /\ BytesLen(sink) > BytesLen(rlog[1][2])

\* session s is in the Open state: __enter__ has returned and __exit__ has
\* not yet released the interface
InOpen(s) == pc[s] \in {"entered", "exit_begin"}

\* C14: of two sessions on the same device at most one is in the Open state
\* at any time; a session in the Open state holds the claim on the interface,
\* and while it does, the other session is not in the Open state: an open
\* of it that got to the claim step failed there with a USB error.
C14_MutualExclusion ==
  \A s \in Sessions : \A t \in Sessions \ {s} :
    InOpen(s) =>
      /\ owner[_device[s]] = s
      /\ _device[t] = _device[s] => ~InOpen(t)
      /\ pc[t] \in {"enter_claim", "enter_raised"} =>
           \A k \in CallsOf(t, "claim_interface") : ~usb_calls[t][k][3]
      /\ pc[t] = "enter_raised" => exc[t] \in USBErrors

\* one session is open and the other's open has failed with EBUSY at its
\* claim, after it found the kernel driver detached by the first
C14_Witness ==
  /\ pc["s1"] = "entered"
  /\ _kernel_was_active["s1"]
  /\ pc["s2"] = "enter_raised"
  /\ exc["s2"] = "USBError:EBUSY"
  /\ _device["s2"] = _device["s1"]
  /\ usb_calls["s2"] = <<Call("is_kernel_driver_active", 1, TRUE),
                         Call("claim_interface", 1, FALSE)>>

\* some session of the race detached the kernel driver: the driver held the
\* interface when the race began
DriverWasDetached ==
  \E s \in Sessions : \E k \in CallsOf(s, "detach_kernel_driver") : usb_calls[s][k][3]

\* C19: when two sessions race to open a device whose interface the kernel
\* driver holds, then once both with statements are over (each session opened
\* and closed, or failed to open) the kernel driver is bound to the interface
\* again.
C19_DriverRestored ==
  ((\A s \in Sessions : pc[s] = "done") /\ DriverWasDetached) =>
    \A d \in 1..Len(devices) : kernel_active[d]

\* the attached devices whose serial descriptor reads and equals serial
Matching(serial) == {k \in 1..Len(devices) : devices[k] = serial}

\* the device the open of session s is to select: with a serial filter the
\* first of the matching devices, without one the first device
Selected(s) ==
  LET cands == IF Truthy(_serial[s]) THEN Matching(_serial[s])
               ELSE 1..Len(devices)
  IN IF cands = {} THEN NoDevice
     ELSE CHOOSE k \in cands : \A j \in cands : k <= j

\* C15: once the lookup of an open is done, the session's device is the
\* first attached device whose serial reads and equals the filter (the first
\* attached device when there is no filter), whatever unreadable or other
\* devices come before it; when there is none the open has failed with the
\* not-found RuntimeError, and it fails that way in no other case.
C15_DeviceSelection ==
  \A s \in Sessions :
    /\ pc[s] \in {"enter_check", "enter_detach", "enter_claim", "entered"} =>
         (_device[s] = Selected(s) /\ Selected(s) # NoDevice)
    /\ pc[s] = "enter_raised" =>
         (exc[s] = "RuntimeError" <=> Selected(s) = NoDevice)
    /\ _device[s] # NoDevice => _device[s] = Selected(s)

\* an open with filter "A" has selected the second device, the first one's
\* serial being unreadable
C15_Witness ==
  /\ _serial[MainSession] = "A"
  /\ devices = <<Unreadable, "A">>
  /\ pc[MainSession] = "entered"
  /\ _device[MainSession] = 2
  /\ owner[2] = MainSession

\* capture_data has returned or raised
CaptureEnded == pc[MainSession] \in {"cap_return", "cap_raised"}

\* C16 (safety part): inside read() the remaining count is size less the
\* bytes delivered so far, every transfer but the one that ends the call
\* delivered at least one byte, so a call makes at most size transfers; a
\* capture makes at most num_loops reads.
C16_Bounded ==
  /\ pc[MainSession] \in {"read_loop", "read_return", "read_raised"} =>
       /\ remaining[MainSession] = size[MainSession] - BytesLen(Accumulated(xlog[MainSession]))
       /\ remaining[MainSession] >= 0
       /\ \A k \in 1..(Len(xlog[MainSession]) - 1) :
            BytesLen(xlog[MainSession][k][3]) >= 1
       /\ Len(xlog[MainSession]) <= size[MainSession]
  /\ Len(rlog) + (IF InRead THEN 1 ELSE 0) <= num_loops
  /\ i <= num_loops

\* C16: every read() call ends, having made at most size transfers whose
\* data each cut the remaining count, and the capture ends after at most
\* num_loops reads.
C16_Terminates ==
  /\ []C16_Bounded
  /\ (pc[MainSession] = "read_begin" ~> ReadEnded(MainSession))
  /\ <>CaptureEnded

\* a capture of three blocks of one byte has returned after three reads of
\* one transfer each
C16_Witness ==
  /\ pc[MainSession] = "cap_return"
  /\ num_loops = 3
  /\ block_size = 1
  /\ Len(rlog) = 3
  /\ Len(xlog[MainSession]) = 1
  /\ cap_result = 3

\* the open of session s detached the kernel driver
Detached(s) ==
  \E k \in CallsOf(s, "detach_kernel_driver") : usb_calls[s][k][3]

\* the last library call of session s
LastCall(s) == usb_calls[s][Len(usb_calls[s])]

\* C17: a session notes the kernel driver as active exactly when its open
\* detached it; its close makes a reattach call exactly in that case, and no
\* session that did not detach ever makes one; an open whose kernel-driver
\* check raised, or found no driver, or whose detach raised, goes on to the
\* claim step with no exception in flight.
C17_ReattachIffDetached ==
  \A s \in Sessions :
    /\ _kernel_was_active[s] <=> Detached(s)
    /\ CallsOf(s, "attach_kernel_driver") # {} => Detached(s)
    /\ pc[s] \in {"exit_dispose", "exit_return"} =>
         (CallsOf(s, "attach_kernel_driver") # {} <=> Detached(s))
    /\ (pc[s] \in {"enter_check", "enter_detach", "enter_claim"}) => exc[s] = "none"
    /\ (/\ usb_calls[s] # <<>>
        /\ \/ LastCall(s)[1] = "detach_kernel_driver"
           \/ LastCall(s) = Call("is_kernel_driver_active", _device[s], FALSE)) =>
         pc[s] = "enter_claim"

\* a session whose detach raised (the other session had detached the
\* driver first) has opened and closed without a reattach call
C17_Witness ==
  /\ pc["s2"] = "exit_return"
  /\ \E k \in CallsOf("s2", "detach_kernel_driver") : ~usb_calls["s2"][k][3]
  /\ ~Detached("s2")
  /\ CallsOf("s2", "attach_kernel_driver") = {}
  /\ CallsOf("s2", "dispose_resources") # {}
  /\ Detached("s1")

\* the names of the last n library calls of session s
LastOps(s, n) ==
  [k \in 1..n |-> usb_calls[s][Len(usb_calls[s]) - n + k][1]]

\* the library calls a close of session s is to make, in order
TeardownSteps(s) ==
  IF _device[s] = NoDevice THEN <<>>
  ELSE IF _kernel_was_active[s]
       THEN <<"release_interface", "attach_kernel_driver", "dispose_resources">>
       ELSE <<"release_interface", "dispose_resources">>

ErrorEnded(s) == xlog[s] # <<>> /\ xlog[s][Len(xlog[s])][1] = "error"

\* C20: a transfer that raises a transport error other than a timeout ends
\* its read() call with that error raised, also when the call has bytes
\* accumulated; capture_data then returns with the block recorded as failed,
\* the sink holding exactly the earlier blocks, the total their length, and
\* the bytes the failed call had accumulated (delivered by the device) in
\* neither.
C20_ErrorDropsPartialBlock ==
  ErrorEnded(MainSession) =>
    /\ pc[MainSession] \in {"read_raised", "cap_return"}
    /\ pc[MainSession] = "read_raised" => exc[MainSession] = "USBError:EIO"
    /\ pc[MainSession] = "cap_return" =>
         /\ exc[MainSession] = "none"
         /\ rlog[Len(rlog)] = <<"raised", "USBError:EIO">>
         /\ sink = BlocksData(Earlier(Len(rlog)))
         /\ cap_result = BytesLen(sink)
         /\ pos[_device[MainSession]] =
              BytesLen(sink) + BytesLen(Accumulated(xlog[MainSession]))
         /\ \A k \in 1..Len(sink) : \A j \in 1..Len(xlog[MainSession]) :
              \A m \in 1..Len(xlog[MainSession][j][3]) :
                sink[k] # xlog[MainSession][j][3][m]

\* the second block's read failed with a transport error after a whole chunk
\* had been accumulated; the capture returned the first block only
C20_Witness ==
  /\ pc[MainSession] = "cap_return"
  /\ ErrorEnded(MainSession)
  /\ Len(rlog) = 2
  /\ BytesLen(Accumulated(xlog[MainSession])) = BULK_TRANSFER_SIZE
  /\ cap_result = block_size
  /\ BytesLen(sink) = block_size
  /\ pos[_device[MainSession]] = block_size + BULK_TRANSFER_SIZE

====
